---- MODULE Spec2Model ----
(***************************************************************************)
(* Campaign orchestration of the outreach dashboard (src/app.py): the      *)
(* browser-side Play Mode and Full Automation Queue controllers, the       *)
(* shared cursor / prompt / pending-email fields they act on, and the      *)
(* /generate and /send routes they call.                                   *)
(*                                                                         *)
(* The page script is single threaded and event driven: a handler runs     *)
(* without interruption up to its next await, so every action below is one *)
(* such run-to-completion segment.  A handler suspended at an await is a   *)
(* task in the bag `tasks`; the completion of its network call or timer is *)
(* the action that resumes it.                                             *)
(*                                                                         *)
(* sendNow's fetch and the loadHistory that follows it are awaited back to *)
(* back and the handler writes nothing but the sendOut box in between, so  *)
(* the two completions are one step.  The message boxes are write-only     *)
(* (autoOut is read once, at the end of a run, where it is never empty):   *)
(* the text a step shows in the Full Automation box is recorded in ev.msg. *)
(* The operator actions modelled are list load / save, prospect click,     *)
(* Next Prospect, Play, Pause, Approve + Send, Start Auto and Stop.        *)
(***************************************************************************)
EXTENDS Integers, Sequences, FiniteSets, Bags, TLC

\* ---------------------------------------------------------------- bounds
MaxProspects == 2
MaxTasks == 2

\* ------------------------------------------------------------- constants
NoEmail == 0           \* the empty string in an email-valued field
EmptyText == 0         \* the empty string in the subject / body fields
NoIndex == -1          \* activeIndex before any prospect is selected
DefaultMaxSends == 15
MinMaxSends == 1
CapMaxSends == 15
DefaultDelay == 12
MinDelay == 2
CapDelay == 600

Min(a, b) == IF a < b THEN a ELSE b
Max(a, b) == IF a > b THEN a ELSE b

\* Prospect lists the server can return: parse_prospect_lines yields a
\* duplicate-free list of non-empty emails.  The lists used are the prefixes
\* of <<1, .., MaxProspects>>, prospect j having email j.
ProspectLists == {[j \in 1..k |-> j] : k \in 0..MaxProspects}

\* The text a successful generation drafts for a prompt whose recipient line
\* holds email e: some non-empty text, written for that recipient (another
\* text for another recipient).
SomeText == 1
DraftFor(e) == SomeText + e

VARIABLES
  prospects,          \* the prospect list of the page (sequence of emails)
  activeIndex,        \* the cursor, 0-based; NoIndex before any selection
  playRunning,
  awaitingApproval,
  autoRunning,
  autoStopRequested,
  toField,            \* the To input
  subjectField,       \* the Subject input
  bodyField,          \* the Body textarea
  prompt,             \* recipient email in the header of the prompt document
  tasks,              \* bag of the suspended handlers
  ev,                 \* what the last step did and showed (observation only)
  history,            \* the server's sent-history store (sequence of records)
  doc,                \* the text of the prompt document, character by character
  call,               \* the last library / route call made on its own, with
                      \* its arguments and result (observation only)
  files               \* the server's data files: the raw prospect list text
                      \* and the templates list

\* What the campaign controllers leave alone: they are studied with the
\* history store and the prompt text abstracted (recSent / recFailed, prompt).
offPage == <<history, doc, call, files>>

\* The page as the campaign controllers see it.
page == <<prospects, activeIndex, playRunning, awaitingApproval, autoRunning,
          autoStopRequested, toField, subjectField, bodyField, prompt, tasks, ev>>

vars == <<prospects, activeIndex, playRunning, awaitingApproval, autoRunning,
          autoStopRequested, toField, subjectField, bodyField, prompt, tasks, ev,
          history, doc, call, files>>

\* -------------------------------------------------------------- tasks
\* kind: "play" (startCycleForCurrentProspect awaiting generateNow)
\*       | "approve" (approveSendBtn.onclick) | "auto" (runFullAutomationQueue)
\* pc:   the await the handler is suspended at: "gen" | "send" | "sleep";
\*       in a snapshot, "end" once it returned and "dead" once it threw.
\* req:  recipient of the request in flight; subject, body: the rest of the
\*       payload of a /send request.
\* i, sentCount, maxSends: the locals of runFullAutomationQueue.
\* The remaining fields observe a run: s its start index, n the length of
\* the list it runs over (of the longest one, should the list be replaced
\* under it), gens / sends the calls it issued, recSent / recFailed the
\* history records its sends produced, attended whether the operator did
\* anything since its start, stopReq whether stop was requested on it.
NoTask ==
  [kind |-> "none", pc |-> "end", req |-> NoEmail,
   subject |-> EmptyText, body |-> EmptyText,
   i |-> 0, sentCount |-> 0, maxSends |-> 0, s |-> 0, n |-> 0,
   gens |-> 0, sends |-> 0, recSent |-> 0, recFailed |-> 0,
   attended |-> FALSE, stopReq |-> FALSE]

NoEv == [type |-> "none", out |-> "-", msg |-> "", run |-> NoTask]
NoCall == [op |-> "none"]

Add(ts, t) == ts (+) SetToBag({t})
Remove(ts, t) == ts (-) SetToBag({t})
InFlight(ts) == BagToSet(ts)
HasRoom == BagCardinality(tasks) < MaxTasks

\* The bag of the f[t], t in ts (f a function on the elements of ts).
MapBag(ts, f) ==
  LET RECURSIVE Go(_)
      Go(S) == IF S = {} THEN EmptyBag
               ELSE LET t == CHOOSE x \in S : TRUE
                    IN [u \in {f[t]} |-> ts[t]] (+) Go(S \ {t})
  IN Go(BagToSet(ts))

\* Operator activity seen by the runs in flight; len is the list length
\* the activity leaves.
Noted(t, len) ==
  IF t.kind # "auto" THEN t
  ELSE [t EXCEPT !.attended = TRUE, !.n = Max(@, len)]
NoteOp(ts, len) == MapBag(ts, [t \in BagToSet(ts) |-> Noted(t, len)])

\* ------------------------------------------------- prompt document
\* The text of the prompt textarea as a sequence of characters, where a
\* character is one of
\*   "R"  the label `Recipient Email:`      "P"  the label `Prospect Name:`
\*   "T"  the rule `--- CAMPAIGN PROMPT ---`
\*   "s"  a blank    "n"  a line break    "x"  any other visible character
\* `const DIVIDER = "\n\n--- CAMPAIGN PROMPT ---\n"`
DIVIDER == <<"n", "n", "T", "n">>

\* The starter campaign text of ensureCampaignPromptExists.
Starter == <<"x">>

\* String.prototype.includes
includes(full, sub) ==
  \E i \in 1..(Len(full) - Len(sub) + 1) : SubSeq(full, i, i + Len(sub) - 1) = sub

\* String.prototype.indexOf, 1-based; 0 when sub does not occur.
indexOf(full, sub) ==
  IF includes(full, sub)
  THEN CHOOSE i \in 1..(Len(full) - Len(sub) + 1) :
         /\ SubSeq(full, i, i + Len(sub) - 1) = sub
         /\ \A j \in 1..(i - 1) : SubSeq(full, j, j + Len(sub) - 1) # sub
  ELSE 0

\* String.prototype.trim
trim(t) ==
  LET ws == {"s", "n"}
      keep == {i \in 1..Len(t) : t[i] \notin ws}
  IN IF keep = {} THEN <<>>
     ELSE SubSeq(t, CHOOSE i \in keep : \A j \in keep : i <= j,
                    CHOOSE i \in keep : \A j \in keep : i >= j)

\* `full.split(DIVIDER, 2)[1] || ""` for a text that includes the divider:
\* split cuts at every occurrence, left to right without overlap, and the
\* limit keeps the first two pieces, so piece [1] ends at the second cut.
splitSecond(full) ==
  LET i == indexOf(full, DIVIDER)
      rest == SubSeq(full, i + Len(DIVIDER), Len(full))
      j == indexOf(rest, DIVIDER)
  IN IF j = 0 THEN rest ELSE SubSeq(rest, 1, j - 1)

\* getCampaignPrompt on text full.
getCampaignPrompt(full) ==
  IF includes(full, DIVIDER) THEN splitSecond(full) ELSE <<>>

\* `full.match(/<label>\s*(.*)/i)`, group 1 trimmed, "" without a match: the
\* leftmost label, then every blank and line break that follows, then the
\* characters up to the next line break.
matchAfter(full, label) ==
  LET at == {i \in 1..Len(full) : full[i] = label}
  IN IF at = {} THEN <<>>
     ELSE LET i == CHOOSE k \in at : \A m \in at : k <= m
              vis == {k \in (i + 1)..Len(full) : full[k] \notin {"s", "n"}}
          IN IF vis = {} THEN <<>>
             ELSE LET j == CHOOSE k \in vis : \A m \in vis : k <= m
                      brk == {k \in j..Len(full) : full[k] = "n"}
                      e == IF brk = {} THEN Len(full)
                           ELSE (CHOOSE k \in brk : \A m \in brk : k <= m) - 1
                  IN trim(SubSeq(full, j, e))

\* getRecipientFromPrompt on text full.
getRecipientFromPrompt(full) ==
  [email |-> matchAfter(full, "R"), name |-> matchAfter(full, "P")]

\* The template literal of setRecipientLines and setCampaignPromptOnly.
promptText(email, name, campaign) ==
  <<"R", "s">> \o email \o <<"n", "P", "s">> \o name \o DIVIDER \o campaign

\* ensureCampaignPromptExists on text full.
ensureCampaignPromptExists(full) ==
  IF includes(full, DIVIDER) THEN full
  ELSE <<"R", "s", "n", "P", "s">> \o DIVIDER \o Starter

\* setRecipientLines(email, name) on text full.
setRecipientLines(full, email, name) ==
  LET campaign == trim(getCampaignPrompt(ensureCampaignPromptExists(full)))
  IN promptText(email, name, campaign)

\* setCampaignPromptOnly(campaignText) on text full.
setCampaignPromptOnly(full, campaignText) ==
  LET r == getRecipientFromPrompt(ensureCampaignPromptExists(full))
  IN promptText(r.email, r.name, trim(campaignText))

\* ------------------------------------------------------- DOM helpers
\* The part of the page setActive writes: cursor, To field, prompt header.
Dom == [activeIndex |-> activeIndex, toField |-> toField, prompt |-> prompt]

\* setActive(index) over list ps.
SetActive(ps, index, d) ==
  IF index >= 0 /\ index < Len(ps)
  THEN [activeIndex |-> index, toField |-> ps[index + 1], prompt |-> ps[index + 1]]
  ELSE [d EXCEPT !.activeIndex = index]

\* `if(activeIndex < 0) setActive(0)`
SelectFirstIfNone(ps, d) == IF d.activeIndex < 0 THEN SetActive(ps, 0, d) ELSE d

\* After page load: the script's initialisers ran (ensureCampaignPromptExists
\* wrote a header with an empty recipient), the first list load is pending.
Init ==
  /\ prospects = <<>>
  /\ activeIndex = NoIndex
  /\ playRunning = FALSE
  /\ awaitingApproval = FALSE
  /\ autoRunning = FALSE
  /\ autoStopRequested = FALSE
  /\ toField = NoEmail
  /\ subjectField = EmptyText
  /\ bodyField = EmptyText
  /\ prompt = NoEmail
  /\ tasks = EmptyBag
  /\ ev = NoEv
  /\ history = <<>>
  /\ doc = ensureCampaignPromptExists(<<>>)
  /\ call = NoCall
  /\ files = [prospect_list |-> <<>>, templates |-> <<>>]

\* The end of renderProspects for a non-empty list ps: the cursor is kept
\* when it is an index of ps, else set to 0; the variant always keeps it.
ReselectedAsIs(ps, d) == SetActive(ps, d.activeIndex, d)
Reselected(ps, d) ==
  IF d.activeIndex >= 0 /\ d.activeIndex < Len(ps)
  THEN SetActive(ps, d.activeIndex, d)
  ELSE SetActive(ps, 0, d)

\* loadProspectsFromServer / saveProspectsBtn.onclick, at the arrival of the
\* reply: prospects = data.items; renderProspects().
ProspectsLoaded(ps) ==
  LET d == IF Len(ps) = 0 THEN Dom ELSE Reselected(ps, Dom)
  IN /\ prospects' = ps
     /\ activeIndex' = d.activeIndex
     /\ toField' = d.toField
     /\ prompt' = d.prompt
     /\ tasks' = NoteOp(tasks, Len(ps))
     /\ ev' = NoEv
     /\ UNCHANGED <<playRunning, awaitingApproval, autoRunning, autoStopRequested,
                    subjectField, bodyField>>
     /\ UNCHANGED offPage

\* ------------------------------------------------------ remote calls
\* What the generation service may answer.  kind "fail" is a reply with
\* ok:false, "throw" a fetch that rejects; on "ok" the reply's `to` echoes the
\* requested recipient or is empty, and subject or body may be empty.
GenOutcomes ==
  {[kind |-> "throw", echo |-> FALSE, subj |-> FALSE, body |-> FALSE],
   [kind |-> "fail", echo |-> FALSE, subj |-> FALSE, body |-> FALSE]}
  \cup {o \in [kind : {"ok"}, echo : BOOLEAN, subj : BOOLEAN, body : BOOLEAN] :
          o.subj \/ o.body}

\* POST /generate for a prompt whose recipient line holds req.
ServerGenerate(req, o) ==
  IF o.kind = "ok"
  THEN [ok |-> TRUE,
        to |-> IF o.echo THEN req ELSE NoEmail,
        subject |-> IF o.subj THEN DraftFor(req) ELSE EmptyText,
        body |-> IF o.body THEN DraftFor(req) ELSE EmptyText]
  ELSE [ok |-> FALSE, to |-> NoEmail, subject |-> EmptyText, body |-> EmptyText]

\* How an outcome of generate reads to an observer: "incomplete" is a reply
\* with ok:true whose email has an empty to, subject or body.
GenOut(o) ==
  IF o.kind # "ok" THEN o.kind
  ELSE IF o.echo /\ o.subj /\ o.body THEN "ok" ELSE "incomplete"

\* POST /send: validation, mail transfer (smtpOk), then the history append of
\* the "sent" record (appendOk); any exception lands in the handler that tries
\* to append a "failed" record (appendFailedOk) and swallows a failure of it.
ServerSend(to, subject, body, smtpOk, appendOk, appendFailedOk) ==
  IF to = NoEmail \/ subject = EmptyText \/ body = EmptyText
  THEN [ok |-> FALSE, rec |-> "none", delivered |-> FALSE]
  ELSE IF smtpOk /\ appendOk
  THEN [ok |-> TRUE, rec |-> "sent", delivered |-> TRUE]
  ELSE [ok |-> FALSE,
        rec |-> IF appendFailedOk THEN "failed" ELSE "none",
        delivered |-> smtpOk]

\* What can happen to a /send request (followed by the history refresh):
\* thrown, a fetch of the two rejects; else the server's three fault points.
\* Flags the route never consults are fixed to TRUE.
SendOutcomes ==
  {o \in [thrown : BOOLEAN, smtpOk : BOOLEAN, appendOk : BOOLEAN,
          appendFailedOk : BOOLEAN] :
     /\ o.thrown => o.smtpOk /\ o.appendOk /\ o.appendFailedOk
     /\ ~o.smtpOk => o.appendOk
     /\ o.smtpOk /\ o.appendOk => o.appendFailedOk}

SendResult(t, o) ==
  ServerSend(t.req, t.subject, t.body, o.smtpOk, o.appendOk, o.appendFailedOk)

\* `if(!gen.ok)`; the variant never takes the branch.
GenFailedNever(g) == FALSE
GenFailed(g) == ~g.ok

\* `if(!sent.ok)`; the variant never takes the branch.
SendFailedNever(r) == FALSE
SendFailed(r) == ~r.ok

\* `activeIndex >= prospects.length - 1`, `i >= prospects.length - 1`; the
\* variant is off by one.
AtLastProspectLate(idx, ps) == idx >= Len(ps)
AtLastProspect(idx, ps) == idx >= Len(ps) - 1

\* fillEmailFields(emailObj) on the To field.
FillTo(draft, to) == IF draft.to # NoEmail THEN draft.to ELSE to

\* sendNow's local validation of the three fields.
SendValid(to, subject, body) ==
  to # NoEmail /\ subject # EmptyText /\ body # EmptyText

\* ------------------------------------------------------- Play Mode
PlayTask(req) == [NoTask EXCEPT !.kind = "play", !.pc = "gen", !.req = req, !.gens = 1]

\* startCycleForCurrentProspect from dom d up to its await, its generate task
\* joining the handlers ts.  generateNow issues its fetch: the prompt, which
\* holds at least the header, is not empty.
RunStartCycle(d, ts) ==
  IF Len(prospects) = 0
  THEN /\ activeIndex' = d.activeIndex
       /\ toField' = d.toField
       /\ prompt' = d.prompt
       /\ tasks' = ts
       /\ UNCHANGED awaitingApproval
  ELSE LET d1 == SelectFirstIfNone(prospects, d)
       IN /\ activeIndex' = d1.activeIndex
          /\ toField' = d1.toField
          /\ prompt' = d1.prompt
          /\ awaitingApproval' = FALSE
          /\ tasks' = Add(ts, PlayTask(d1.prompt))

\* Click on a prospect of the list: setActive(idx).
ClickProspect(idx) ==
  LET d == SetActive(prospects, idx, Dom)
  IN /\ activeIndex' = d.activeIndex
     /\ toField' = d.toField
     /\ prompt' = d.prompt
     /\ tasks' = NoteOp(tasks, Len(prospects))
     /\ ev' = NoEv
     /\ UNCHANGED <<prospects, playRunning, awaitingApproval, autoRunning,
                    autoStopRequested, subjectField, bodyField>>
     /\ UNCHANGED offPage

\* nextBtn.onclick
NextProspect ==
  /\ Len(prospects) > 0
  /\ playRunning => HasRoom
  /\ LET d == SetActive(prospects, Min(activeIndex + 1, Len(prospects) - 1), Dom)
     IN IF playRunning
        THEN RunStartCycle(d, NoteOp(tasks, Len(prospects)))
        ELSE /\ activeIndex' = d.activeIndex
             /\ toField' = d.toField
             /\ prompt' = d.prompt
             /\ tasks' = NoteOp(tasks, Len(prospects))
             /\ UNCHANGED awaitingApproval
  /\ ev' = NoEv
  /\ UNCHANGED <<prospects, playRunning, autoRunning, autoStopRequested,
                 subjectField, bodyField>>
  /\ UNCHANGED offPage

\* A generation of Play Mode in flight when Play Mode is paused (stopReq),
\* and when it is started again.
PauseNoted(t) == IF t.kind = "play" THEN [t EXCEPT !.stopReq = TRUE] ELSE t
PlayNoted(t) == IF t.kind = "play" THEN [t EXCEPT !.stopReq = FALSE] ELSE t

\* playBtn.onclick; the button is disabled exactly while playRunning
\* (setPlayUI accompanies every assignment to playRunning).
Play ==
  /\ ~playRunning
  /\ Len(prospects) > 0
  /\ HasRoom
  /\ playRunning' = TRUE
  /\ LET ts == NoteOp(tasks, Len(prospects))
     IN RunStartCycle(SelectFirstIfNone(prospects, Dom),
                      MapBag(ts, [t \in BagToSet(ts) |-> PlayNoted(t)]))
  /\ ev' = [NoEv EXCEPT !.type = "play"]
  /\ UNCHANGED <<prospects, autoRunning, autoStopRequested, subjectField, bodyField>>
  /\ UNCHANGED offPage

\* pauseBtn.onclick; enabled exactly while playRunning.
Pause ==
  /\ playRunning
  /\ playRunning' = FALSE
  /\ awaitingApproval' = FALSE
  /\ LET ts == NoteOp(tasks, Len(prospects))
     IN tasks' = MapBag(ts, [t \in BagToSet(ts) |-> PauseNoted(t)])
  /\ ev' = [NoEv EXCEPT !.type = "pause"]
  /\ UNCHANGED <<prospects, activeIndex, autoRunning, autoStopRequested, toField,
                 subjectField, bodyField, prompt>>
  /\ UNCHANGED offPage

\* approveSendBtn.onclick up to its first await: nothing without a pending
\* approval; else sendNow, which either fails its local validation (the
\* handler then only awaits loadHistory and returns) or issues /send.
ApproveTask(to, subject, body) ==
  [NoTask EXCEPT !.kind = "approve", !.pc = "send", !.req = to,
                 !.subject = subject, !.body = body, !.sends = 1]

\* `if(!awaitingApproval) return;`; the variant drops the early return.
ApprovalPendingAlways == TRUE
ApprovalPending == awaitingApproval

Approve ==
  /\ ApprovalPending => HasRoom
  /\ IF ~ApprovalPending
     THEN /\ tasks' = NoteOp(tasks, Len(prospects))
          /\ ev' = [NoEv EXCEPT !.type = "approve", !.out = "ignored"]
     ELSE IF ~SendValid(toField, subjectField, bodyField)
     THEN /\ tasks' = NoteOp(tasks, Len(prospects))
          /\ ev' = [NoEv EXCEPT !.type = "approve", !.out = "invalid"]
     ELSE LET t == ApproveTask(toField, subjectField, bodyField)
          IN /\ tasks' = Add(NoteOp(tasks, Len(prospects)), t)
             /\ ev' = [NoEv EXCEPT !.type = "approve", !.out = "sending", !.run = t]
  /\ UNCHANGED <<prospects, activeIndex, playRunning, awaitingApproval, autoRunning,
                 autoStopRequested, toField, subjectField, bodyField, prompt>>
  /\ UNCHANGED offPage

\* approveSendBtn.onclick resumes after `await sendNow(); await loadHistory()`.
\* thrown: one of the two fetches rejected, the handler ends there.
ApproveSendDone(t, o) ==
  /\ t.kind = "approve" /\ t.pc = "send"
  /\ LET r == SendResult(t, o)
         rest == Remove(tasks, t)
         out == IF o.thrown THEN "throw" ELSE IF r.ok THEN "ok" ELSE "fail"
         e == [type |-> "approveSend", out |-> out, msg |-> "",
               run |-> [t EXCEPT !.pc = IF o.thrown THEN "dead" ELSE "end"]]
     IN IF o.thrown \/ SendFailed(r)
        THEN /\ tasks' = rest
             /\ ev' = e
             /\ UNCHANGED <<activeIndex, playRunning, awaitingApproval, toField, prompt>>
        ELSE IF ~playRunning
        THEN /\ awaitingApproval' = FALSE
             /\ tasks' = rest
             /\ ev' = e
             /\ UNCHANGED <<activeIndex, playRunning, toField, prompt>>
        ELSE IF AtLastProspect(activeIndex, prospects)
        THEN /\ awaitingApproval' = FALSE
             /\ playRunning' = FALSE
             /\ tasks' = rest
             /\ ev' = e
             /\ UNCHANGED <<activeIndex, toField, prompt>>
        ELSE /\ RunStartCycle(SetActive(prospects, activeIndex + 1, Dom), rest)
             /\ ev' = e
             /\ UNCHANGED playRunning
  /\ UNCHANGED <<prospects, autoRunning, autoStopRequested, subjectField, bodyField>>
  /\ UNCHANGED offPage

\* startCycleForCurrentProspect resumes after `await generateNow()`.
PlayGenDone(t, o) ==
  /\ t.kind = "play" /\ t.pc = "gen"
  /\ LET g == ServerGenerate(t.req, o)
     IN /\ IF o.kind = "throw"
           THEN UNCHANGED <<awaitingApproval, toField, subjectField, bodyField>>
           ELSE IF GenFailed(g)
           THEN /\ awaitingApproval' = FALSE
                /\ UNCHANGED <<toField, subjectField, bodyField>>
           ELSE /\ toField' = FillTo(g, toField)
                /\ subjectField' = g.subject
                /\ bodyField' = g.body
                /\ awaitingApproval' = TRUE
        /\ tasks' = Remove(tasks, t)
        /\ ev' = [type |-> "playGen", out |-> GenOut(o), msg |-> "",
                  run |-> [t EXCEPT !.pc = IF o.kind = "throw" THEN "dead" ELSE "end"]]
  /\ UNCHANGED <<prospects, activeIndex, playRunning, autoRunning,
                 autoStopRequested, prompt>>
  /\ UNCHANGED offPage

\* ------------------------------------------------ Full Automation
\* The autoMax input as the operator left it: blank, not a number, or an
\* integer.  `parseInt(autoMaxEl.value || "15", 10)`, NaN replaced by 15,
\* clamped to [1, 15].
MaxSendsInputs ==
  {<<"blank", 0>>, <<"text", 0>>, <<"int", 0>>, <<"int", 1>>, <<"int", 16>>}

\* The variant forgets the upper limit.
ClampMaxSendsNoCap(inp) ==
  LET parsed == IF inp[1] = "int" THEN inp[2] ELSE DefaultMaxSends
  IN Max(MinMaxSends, parsed)

ClampMaxSends(inp) ==
  LET parsed == IF inp[1] = "int" THEN inp[2] ELSE DefaultMaxSends
  IN Max(MinMaxSends, Min(CapMaxSends, parsed))

\* `parseInt(autoDelayEl.value || "12", 10)`, NaN replaced by 12, clamped to
\* [2, 600].
ClampDelay(inp) ==
  LET parsed == IF inp[1] = "int" THEN inp[2] ELSE DefaultDelay
  IN Max(MinDelay, Min(CapDelay, parsed))

\* The code after the while loop: the run is over.
AutoFinish(t, d, ts, type, out, msg) ==
  /\ autoRunning' = FALSE
  /\ autoStopRequested' = FALSE
  /\ activeIndex' = d.activeIndex
  /\ toField' = d.toField
  /\ prompt' = d.prompt
  /\ tasks' = ts
  /\ ev' = [type |-> type, out |-> out, msg |-> msg, run |-> [t EXCEPT !.pc = "end"]]

\* The while condition, evaluated with the flags as given, and the loop body
\* up to `await generateNow()`.  msg is what the box shows if the loop exits.
AutoLoop(t, running, stopping, d, ts, type, out, msg) ==
  IF running /\ ~stopping /\ t.sentCount < t.maxSends /\ t.i < Len(prospects)
  THEN LET d1 == SetActive(prospects, t.i, d)
           t1 == [t EXCEPT !.pc = "gen", !.req = d1.prompt, !.gens = @ + 1]
       IN /\ autoRunning' = running
          /\ autoStopRequested' = stopping
          /\ activeIndex' = d1.activeIndex
          /\ toField' = d1.toField
          /\ prompt' = d1.prompt
          /\ tasks' = Add(ts, t1)
          /\ ev' = [type |-> type, out |-> out, msg |-> "working", run |-> t1]
  ELSE AutoFinish(t, d, ts, type, out, msg)

\* autoStartBtn.onclick -> runFullAutomationQueue up to its first await.  The
\* button is disabled exactly while autoRunning (setAutoUI accompanies every
\* assignment to autoRunning).
AutoStart(inp) ==
  /\ ~autoRunning
  /\ HasRoom
  /\ IF Len(prospects) = 0
     THEN /\ tasks' = NoteOp(tasks, Len(prospects))
          /\ ev' = [NoEv EXCEPT !.type = "autoStart", !.out = "empty", !.msg = "addfirst"]
          /\ UNCHANGED <<activeIndex, playRunning, awaitingApproval, autoRunning,
                         autoStopRequested, toField, prompt>>
     ELSE LET d == SelectFirstIfNone(prospects, Dom)
              t == [NoTask EXCEPT !.kind = "auto", !.i = d.activeIndex,
                                  !.maxSends = ClampMaxSends(inp),
                                  !.s = d.activeIndex, !.n = Len(prospects)]
          IN /\ playRunning' = FALSE
             /\ awaitingApproval' = IF playRunning THEN FALSE ELSE awaitingApproval
             /\ AutoLoop(t, TRUE, FALSE, d, NoteOp(tasks, Len(prospects)),
                         "autoStart", "ok", "started")
  /\ UNCHANGED <<prospects, subjectField, bodyField>>
  /\ UNCHANGED offPage

\* runFullAutomationQueue resumes after `await generateNow()`.
AutoGenDone(t, o) ==
  /\ t.kind = "auto" /\ t.pc = "gen"
  /\ LET g == ServerGenerate(t.req, o)
         rest == Remove(tasks, t)
         to1 == FillTo(g, toField)
     IN IF o.kind = "throw"
        THEN /\ tasks' = rest
             /\ ev' = [type |-> "autoGen", out |-> "throw", msg |-> "",
                       run |-> [t EXCEPT !.pc = "dead"]]
             /\ UNCHANGED <<activeIndex, autoRunning, autoStopRequested, toField,
                            subjectField, bodyField, prompt>>
        ELSE IF GenFailed(g)
        THEN /\ AutoFinish(t, Dom, rest, "autoGen", GenOut(o), "genfailed")
             /\ UNCHANGED <<subjectField, bodyField>>
        ELSE /\ subjectField' = g.subject
             /\ bodyField' = g.body
             /\ IF ~SendValid(to1, g.subject, g.body)
                THEN AutoFinish(t, [Dom EXCEPT !.toField = to1], rest,
                                "autoGen", GenOut(o), "missing")
                ELSE LET t1 == [t EXCEPT !.pc = "send", !.req = to1,
                                         !.subject = g.subject, !.body = g.body,
                                         !.sends = @ + 1]
                     IN /\ toField' = to1
                        /\ tasks' = Add(rest, t1)
                        /\ ev' = [type |-> "autoGen", out |-> GenOut(o), msg |-> "",
                                  run |-> NoTask]
                        /\ UNCHANGED <<activeIndex, autoRunning, autoStopRequested, prompt>>
  /\ UNCHANGED <<prospects, playRunning, awaitingApproval>>
  /\ UNCHANGED offPage

\* `sentCount += 1`; the variant forgets it.
CountedNot(t) == t
Counted(t) == [t EXCEPT !.sentCount = @ + 1]

\* `await sleep(delaySec * 1000)` after a counted send; the variant goes on
\* to the next prospect at once.
DelayedNot(t) == [t EXCEPT !.pc = "gen", !.i = @ + 1, !.gens = @ + 1]
Delayed(t) == [t EXCEPT !.pc = "sleep"]

\* runFullAutomationQueue resumes after `await sendNow(); await loadHistory()`.
\* thrown: one of the two fetches rejected, the handler ends there.
AutoSendDone(t, o) ==
  /\ t.kind = "auto" /\ t.pc = "send"
  /\ LET r == SendResult(t, o)
         rest == Remove(tasks, t)
         out == IF o.thrown THEN "throw" ELSE IF r.ok THEN "ok" ELSE "fail"
         t1 == [t EXCEPT !.recSent = @ + (IF r.rec = "sent" THEN 1 ELSE 0),
                         !.recFailed = @ + (IF r.rec = "failed" THEN 1 ELSE 0)]
         t2 == Counted(t1)
     IN IF o.thrown
        THEN /\ tasks' = rest
             /\ ev' = [type |-> "autoSend", out |-> out, msg |-> "",
                       run |-> [t1 EXCEPT !.pc = "dead"]]
             /\ UNCHANGED <<activeIndex, autoRunning, autoStopRequested, toField, prompt>>
        ELSE IF SendFailed(r)
        THEN AutoFinish(t1, Dom, rest, "autoSend", out, "sendfailed")
        ELSE IF t2.sentCount >= t2.maxSends
        THEN AutoFinish(t2, Dom, rest, "autoSend", out, "maxsends")
        ELSE IF AtLastProspect(t2.i, prospects)
        THEN AutoFinish(t2, Dom, rest, "autoSend", out, "endoflist")
        ELSE /\ tasks' = Add(rest, Delayed(t2))
             /\ ev' = [type |-> "autoSend", out |-> out, msg |-> "waiting",
                       run |-> Delayed(t2)]
             /\ UNCHANGED <<activeIndex, autoRunning, autoStopRequested, toField, prompt>>
  /\ UNCHANGED <<prospects, playRunning, awaitingApproval, subjectField, bodyField>>
  /\ UNCHANGED offPage

\* runFullAutomationQueue resumes after `await sleep(delaySec * 1000)`:
\* i += 1 and back to the while condition.
AutoSleepDone(t) ==
  /\ t.kind = "auto" /\ t.pc = "sleep"
  /\ AutoLoop([t EXCEPT !.i = @ + 1], autoRunning, autoStopRequested, Dom,
              Remove(tasks, t), "autoSleep", "ok", "")
  /\ UNCHANGED <<prospects, playRunning, awaitingApproval, subjectField, bodyField>>
  /\ UNCHANGED offPage

\* autoStopBtn.onclick; enabled exactly while autoRunning.
StopNoted(t) == IF t.kind = "auto" THEN [t EXCEPT !.stopReq = TRUE] ELSE t
AutoStop ==
  /\ autoRunning
  /\ autoStopRequested' = TRUE
  /\ autoRunning' = FALSE
  /\ LET ts == NoteOp(tasks, Len(prospects))
     IN tasks' = MapBag(ts, [t \in BagToSet(ts) |-> StopNoted(t)])
  /\ ev' = [NoEv EXCEPT !.type = "autoStop", !.msg = "stopping"]
  /\ UNCHANGED <<prospects, activeIndex, playRunning, awaitingApproval, toField,
                 subjectField, bodyField, prompt>>
  /\ UNCHANGED offPage

Next ==
  \/ \E ps \in ProspectLists : ProspectsLoaded(ps)
  \/ \E idx \in 0..(Len(prospects) - 1) : ClickProspect(idx)
  \/ NextProspect
  \/ Play
  \/ Pause
  \/ Approve
  \/ \E t \in InFlight(tasks), o \in SendOutcomes : ApproveSendDone(t, o)
  \/ \E t \in InFlight(tasks), o \in GenOutcomes : PlayGenDone(t, o)
  \/ \E inp \in MaxSendsInputs : AutoStart(inp)
  \/ \E t \in InFlight(tasks), o \in GenOutcomes : AutoGenDone(t, o)
  \/ \E t \in InFlight(tasks), o \in SendOutcomes : AutoSendDone(t, o)
  \/ \E t \in InFlight(tasks) : AutoSleepDone(t)
  \/ AutoStop

Spec == Init /\ [][Next]_vars

\* Every call and every delay eventually completes: the browser resolves or
\* rejects each fetch and fires each timer, and resumes the handler awaiting it.
Completions ==
  /\ WF_vars(\E t \in InFlight(tasks), o \in GenOutcomes : PlayGenDone(t, o))
  /\ WF_vars(\E t \in InFlight(tasks), o \in SendOutcomes : ApproveSendDone(t, o))
  /\ WF_vars(\E t \in InFlight(tasks), o \in GenOutcomes : AutoGenDone(t, o))
  /\ WF_vars(\E t \in InFlight(tasks), o \in SendOutcomes : AutoSendDone(t, o))
  /\ WF_vars(\E t \in InFlight(tasks) : AutoSleepDone(t))

LiveSpec == Init /\ [][Next]_vars /\ Completions

\* ====================================================== server routes
\* The routes on their own, request by request, with the history store in
\* full.  Field texts: empty, blank, a text, a text with blanks around it.
MaxHistory == 2

Texts == {"", " ", "x", " x "}

\* str.strip(); the variant forgets it.
stripNot(s) == s
strip(s) == IF s = " " THEN "" ELSE IF s = " x " THEN "x" ELSE s

\* append_sent_history on a writable store (the timestamp is left out).
append_sent_history(h, to_email, subject, body, status, error) ==
  Append(h, [to |-> to_email, subject |-> subject, body |-> body,
             status |-> status, error |-> error])

\* What may go wrong inside /send: the mail transfer (smtpOk), the append of
\* the "sent" record (appendOk), the append of the "failed" record
\* (appendFailedOk).
SendFaults == [smtpOk : BOOLEAN, appendOk : BOOLEAN, appendFailedOk : BOOLEAN]

\* `except Exception as e:` of send: try to log the failure, swallow a failure
\* of the logging, reply with the error.  smtp: calls of send_email_smtp made.
\* The variant swallows the error with the logging.
sendFailedSilently(h, to_email, subject, body, e, smtp, f) ==
  [ok |-> TRUE, error |-> "", smtp |-> smtp,
   history |-> IF f.appendFailedOk
               THEN append_sent_history(h, to_email, subject, body, "failed", e)
               ELSE h]

sendFailed(h, to_email, subject, body, e, smtp, f) ==
  [ok |-> FALSE, error |-> e, smtp |-> smtp,
   history |-> IF f.appendFailedOk
               THEN append_sent_history(h, to_email, subject, body, "failed", e)
               ELSE h]

\* POST /send on store h with JSON body data under faults f.
send(h, data, f) ==
  LET to_email == strip(data.to)
      subject == strip(data.subject)
      body == strip(data.body)
  IN IF to_email = "" \/ subject = "" \/ body = ""
     THEN [ok |-> FALSE, error |-> "To, subject, and body are required",
           smtp |-> 0, history |-> h]
     ELSE IF ~f.smtpOk
     THEN sendFailed(h, to_email, subject, body, "smtp error", 1, f)
     ELSE IF ~f.appendOk
     THEN sendFailed(h, to_email, subject, body, "storage error", 1, f)
     ELSE [ok |-> TRUE, error |-> "", smtp |-> 1,
           history |-> append_sent_history(h, to_email, subject, body, "sent", "")]

\* What the generation service may do with a request: answer with a JSON
\* email, answer with something that is not JSON, or fail.
AiOutcomes == {"email", "notjson", "error"}

\* The reply of a route that called the generation service (ai: calls made).
aiReply(o) ==
  IF o = "email" THEN [ok |-> TRUE, error |-> "", ai |-> 1]
  ELSE IF o = "notjson"
  THEN [ok |-> FALSE, error |-> "AI response was not valid JSON", ai |-> 1]
  ELSE [ok |-> FALSE, error |-> "service error", ai |-> 1]

\* POST /generate
generate(data, o) ==
  IF strip(data.prompt) = ""
  THEN [ok |-> FALSE, error |-> "Prompt is required", ai |-> 0]
  ELSE aiReply(o)

\* POST /followup
followup(data, o) ==
  IF strip(data.to) = "" \/ strip(data.previous_subject) = ""
       \/ strip(data.previous_body) = ""
  THEN [ok |-> FALSE, error |-> "To, previous_subject, and previous_body are required",
        ai |-> 0]
  ELSE aiReply(o)

\* One request to /send.
SendRequest(data, f) ==
  /\ Len(history) < MaxHistory
  /\ LET r == send(history, data, f)
     IN /\ history' = r.history
        /\ call' = [op |-> "send", data |-> data, faults |-> f, before |-> history,
                    ok |-> r.ok, error |-> r.error, smtp |-> r.smtp, ai |-> 0]
  /\ UNCHANGED <<page, files, doc>>

\* One request to /generate.
GenerateRequest(data, o) ==
  /\ LET r == generate(data, o)
     IN call' = [op |-> "generate", data |-> data, faults |-> o, before |-> history,
                 ok |-> r.ok, error |-> r.error, smtp |-> 0, ai |-> r.ai]
  /\ UNCHANGED <<page, files, doc, history>>

\* One request to /followup.
FollowupRequest(data, o) ==
  /\ LET r == followup(data, o)
     IN call' = [op |-> "followup", data |-> data, faults |-> o, before |-> history,
                 ok |-> r.ok, error |-> r.error, smtp |-> 0, ai |-> r.ai]
  /\ UNCHANGED <<page, files, doc, history>>

ServerNext ==
  \/ \E data \in [to : Texts, subject : Texts, body : Texts], f \in SendFaults :
       SendRequest(data, f)
  \/ \E data \in [prompt : Texts], o \in AiOutcomes : GenerateRequest(data, o)
  \/ \E data \in [to : Texts, previous_subject : Texts, previous_body : Texts],
        o \in AiOutcomes : FollowupRequest(data, o)

ServerSpec == Init /\ [][ServerNext]_vars

\* ================================================ start parameters
\* The two number inputs of the Full Automation panel as the operator may
\* leave them: blank, a text that is no number, or an integer around the
\* limits and the default.
Margin == 2

AutoMaxInputs ==
  {<<"blank", 0>>, <<"text", 0>>}
    \cup {<<"int", k>> : k \in (MinMaxSends - Margin)..(CapMaxSends + Margin)}

AutoDelayInputs ==
  {<<"blank", 0>>, <<"text", 0>>}
    \cup {<<"int", k>> : k \in (MinDelay - Margin)..(MinDelay + Margin)
                                 \cup (DefaultDelay - 1)..(DefaultDelay + 1)
                                 \cup (CapDelay - Margin)..(CapDelay + Margin)}

\* runFullAutomationQueue reads its two parameters.
ReadParameters(autoMax, autoDelay) ==
  /\ call' = [op |-> "parameters", autoMax |-> autoMax, autoDelay |-> autoDelay,
              maxSends |-> ClampMaxSends(autoMax),
              delaySec |-> ClampDelay(autoDelay)]
  /\ UNCHANGED <<page, files, doc, history>>

ParametersNext ==
  \E autoMax \in AutoMaxInputs, autoDelay \in AutoDelayInputs :
    ReadParameters(autoMax, autoDelay)

ParametersSpec == Init /\ [][ParametersNext]_vars

\* ================================================== prompt codec
\* The prompt textarea on its own: the operator types into it, a prospect
\* is selected (setRecipientLines), a template is loaded
\* (setCampaignPromptOnly).
\* Longest text followed (a header that setCampaignPromptOnly misreads
\* grows with every call).
MaxDocLen == 20

\* Emails and names handed to setRecipientLines.
Plains == {<<>>, <<"x">>}

\* Campaign texts: empty, plain, with blanks or line breaks around, and one
\* that holds the divider line.
CampaignTexts ==
  {<<>>, <<"x">>, <<"s", "x">>, <<"x", "n">>, <<"x">> \o DIVIDER \o <<"x">>}

\* What the operator may leave in the textarea.
TypedDocs ==
  {promptText(e, n, b) : e \in Plains, n \in Plains, b \in CampaignTexts}
    \cup {<<>>, <<"x">>}

\* The operator edits the textarea.
EditPrompt(d) ==
  /\ doc' = d
  /\ call' = [op |-> "edit", before |-> doc]
  /\ UNCHANGED <<page, files, history>>

\* setRecipientLines(email, name), as setActive calls it.
SetRecipientLines(email, name) ==
  /\ Len(setRecipientLines(doc, email, name)) <= MaxDocLen
  /\ doc' = setRecipientLines(doc, email, name)
  /\ call' = [op |-> "setRecipientLines", before |-> doc,
              email |-> email, name |-> name]
  /\ UNCHANGED <<page, files, history>>

\* setCampaignPromptOnly(campaignText), as loadTemplateBtn.onclick calls it.
SetCampaignPromptOnly(campaignText) ==
  /\ Len(setCampaignPromptOnly(doc, campaignText)) <= MaxDocLen
  /\ doc' = setCampaignPromptOnly(doc, campaignText)
  /\ call' = [op |-> "setCampaignPromptOnly", before |-> doc,
              campaignText |-> campaignText]
  /\ UNCHANGED <<page, files, history>>

CodecNext ==
  \/ \E d \in TypedDocs : EditPrompt(d)
  \/ \E email \in Plains, name \in Plains : SetRecipientLines(email, name)
  \/ \E campaignText \in CampaignTexts : SetCampaignPromptOnly(campaignText)

CodecSpec == Init /\ [][CodecNext]_vars

\* ================================================== prospect list
\* The raw prospect list text as a sequence of characters, where a character
\* is one of
\*   "a" "A"  one letter in lower and in upper case
\*   "@" "." "," "<" ">"  themselves    "s"  a blank    "n"  a line break

\* Longest raw text followed, in lines.
MaxLines == 2

\* `x in t` for a character x.
has(x, t) == \E i \in 1..Len(t) : t[i] = x

\* str.strip() of a line.
stripLine(t) == trim(t)

\* str.lower(); the variant leaves the case alone.
lowerNot(t) == t
lower(t) == [i \in 1..Len(t) |-> IF t[i] = "A" THEN "a" ELSE t[i]]

\* t.split(x, 1): the pieces before and after the first x, or t alone.
split1(t, x) ==
  LET at == {i \in 1..Len(t) : t[i] = x}
  IN IF at = {} THEN <<t>>
     ELSE LET i == CHOOSE k \in at : \A m \in at : k <= m
          IN <<SubSeq(t, 1, i - 1), SubSeq(t, i + 1, Len(t))>>

\* str.splitlines()
RECURSIVE splitlines(_)
splitlines(text) ==
  IF text = <<>> THEN <<>>
  ELSE IF ~has("n", text) THEN <<text>>
  ELSE <<split1(text, "n")[1]>> \o splitlines(split1(text, "n")[2])

\* The (name, email) parse_prospect_lines derives from a stripped, non-empty
\* line, before it looks at the email.
candidate(line) ==
  LET c == IF has("<", line) /\ has(">", line)
           THEN [name  |-> stripLine(split1(line, "<")[1]),
                 email |-> stripLine(split1(split1(line, "<")[2], ">")[1])]
           ELSE IF has(",", line)
           THEN LET parts == [k \in 1..Len(split1(line, ",")) |->
                                stripLine(split1(line, ",")[k])]
                IN IF Len(parts) = 2
                   THEN [name |-> parts[1], email |-> parts[2]]
                   ELSE [name |-> <<>>, email |-> <<>>]
           ELSE [name |-> <<>>, email |-> line]
  IN [name |-> stripLine(c.name), email |-> stripLine(c.email)]

\* The loop of parse_prospect_lines over the lines left, with `out` and `seen`.
RECURSIVE parseLoop(_, _, _)
parseLoop(lines, out, seen) ==
  IF lines = <<>> THEN out
  ELSE LET line == stripLine(Head(lines))
           c == candidate(line)
           key == lower(c.email)
       IN IF line = <<>> THEN parseLoop(Tail(lines), out, seen)
          ELSE IF ~has("@", c.email) \/ ~has(".", c.email)
               THEN parseLoop(Tail(lines), out, seen)
          ELSE IF key \in seen THEN parseLoop(Tail(lines), out, seen)
          ELSE parseLoop(Tail(lines), Append(out, c), seen \cup {key})

parse_prospect_lines(text) == parseLoop(splitlines(text), <<>>, {})

\* Lines an operator may put in the list: blank, bare emails in both cases
\* and with blanks around, `name, email`, `name <email>`, a comma with one
\* side empty, both forms mixed, and lines that hold no email.
Mail == <<"a", "@", ".">>
MAIL == <<"A", "@", ".">>
ProspectLines ==
  { <<>>, Mail, MAIL, <<"s">> \o Mail \o <<"s">>,
    <<"a", ",", "s">> \o Mail,
    <<"A", "s", "<">> \o MAIL \o <<">">>,
    <<",">> \o Mail,
    Mail \o <<",">>,
    <<"a", ",", "A", "<">> \o Mail \o <<">">>,
    <<"<", "a", ",", "@", ".", ">">>,
    <<"a", ",", "<">> \o MAIL,
    <<"a">>,
    <<"a", "@">> }

\* "\n".join(lines)
RECURSIVE join(_)
join(lines) ==
  IF lines = <<>> THEN <<>>
  ELSE IF Len(lines) = 1 THEN lines[1]
  ELSE lines[1] \o <<"n">> \o join(Tail(lines))

RawTexts ==
  {join(ls) : ls \in UNION {[1..k -> ProspectLines] : k \in 0..MaxLines}}

\* POST /prospect_list with {raw}; the write of the file may fail.
SetProspectList(raw, saved) ==
  /\ IF saved
     THEN /\ files' = [files EXCEPT !.prospect_list = raw]
          /\ call' = [op |-> "set_prospect_list", ok |-> TRUE, raw |-> raw,
                      items |-> parse_prospect_lines(raw)]
     ELSE /\ UNCHANGED files
          /\ call' = [op |-> "set_prospect_list", ok |-> FALSE]
  /\ UNCHANGED <<page, history, doc>>

\* GET /prospect_list
GetProspectList ==
  /\ call' = [op |-> "get_prospect_list", ok |-> TRUE,
              raw |-> files.prospect_list,
              items |-> parse_prospect_lines(files.prospect_list)]
  /\ UNCHANGED <<page, history, doc, files>>

ProspectListNext ==
  \/ \E raw \in RawTexts, saved \in BOOLEAN : SetProspectList(raw, saved)
  \/ GetProspectList

ProspectListSpec == Init /\ [][ProspectListNext]_vars

\* ====================================================== templates
\* Template names and prompts as sequences of characters: "a" "A" one letter
\* in two cases, "b" "x" "y" other letters, "s" a blank.
TemplateNames == {<<>>, <<"s">>, <<"a">>, <<"A">>, <<"s", "a">>, <<"b">>}
TemplatePrompts == {<<>>, <<"s">>, <<"x">>, <<"s", "x">>, <<"y">>}

\* `(t.get("name") or "").strip().lower() == name.lower()`
sameName(t, name) == lower(stripLine(t.name)) = lower(name)

\* items.insert(0, t); the variant appends.
insertLast(items, t) == Append(items, t)
insertFirst(items, t) == <<t>> \o items

\* upsert_template on the loaded items: [ok, items], ok FALSE for the
\* ValueError; the first template of that name is overwritten, name included.
upsert_template(items, name0, campaign_prompt0) ==
  LET name == stripLine(name0)
      campaign_prompt == stripLine(campaign_prompt0)
      found == {k \in 1..Len(items) : sameName(items[k], name)}
      t == [name |-> name, prompt |-> campaign_prompt]
  IN IF name = <<>> \/ campaign_prompt = <<>>
     THEN [ok |-> FALSE, items |-> items]
     ELSE IF found # {}
     THEN [ok |-> TRUE,
           items |-> [items EXCEPT
                        ![CHOOSE k \in found : \A m \in found : k <= m] = t]]
     ELSE [ok |-> TRUE, items |-> insertFirst(items, t)]

\* Not sameName(t, name), as a filter of delete_template.
RECURSIVE without(_, _)
without(items, name_l) ==
  IF items = <<>> THEN <<>>
  ELSE IF lower(stripLine(Head(items).name)) = name_l
       THEN without(Tail(items), name_l)
       ELSE <<Head(items)>> \o without(Tail(items), name_l)

\* delete_template on the loaded items.
delete_template(items, name) == without(items, lower(stripLine(name)))

\* POST /templates {action: "save", name, prompt}; the write of the file may
\* fail (`saved` FALSE), after the checks.
SaveTemplate(name, campaign_prompt, saved) ==
  LET r == upsert_template(files.templates, name, campaign_prompt)
  IN /\ files' = IF r.ok /\ saved THEN [files EXCEPT !.templates = r.items]
                 ELSE files
     /\ call' = [op |-> "save", name |-> name, prompt |-> campaign_prompt,
                 before |-> files.templates, ok |-> r.ok /\ saved]
     /\ UNCHANGED <<page, history, doc>>

\* POST /templates {action: "delete", name}
DeleteTemplate(name, saved) ==
  /\ files' = IF saved
              THEN [files EXCEPT !.templates = delete_template(files.templates, name)]
              ELSE files
  /\ call' = [op |-> "delete", name |-> name, before |-> files.templates,
              ok |-> saved]
  /\ UNCHANGED <<page, history, doc>>

\* POST /templates with any other action.
InvalidAction ==
  /\ call' = [op |-> "templates", before |-> files.templates, ok |-> FALSE]
  /\ UNCHANGED <<page, history, doc, files>>

TemplatesNext ==
  \/ \E name \in TemplateNames, campaign_prompt \in TemplatePrompts,
          saved \in BOOLEAN :
       SaveTemplate(name, campaign_prompt, saved)
  \/ \E name \in TemplateNames, saved \in BOOLEAN : DeleteTemplate(name, saved)
  \/ InvalidAction

TemplatesSpec == Init /\ [][TemplatesNext]_vars

\* =========================================================== properties
\* The Full Automation runs observable in a state: those suspended at an
\* await, and the one the last step ended or moved.
AutoRuns ==
  {t \in InFlight(tasks) : t.kind = "auto"}
    \cup (IF ev.run.kind = "auto" THEN {ev.run} ELSE {})

\* Number of cycle steps (generate or send calls) in flight.
CycleStepsInFlight(ts) ==
  LET S == {t \in BagToSet(ts) : t.pc \in {"gen", "send"}}
  IN BagCardinality([t \in S |-> ts[t]])

\* Number of suspended handlers of a kind.
InFlightOfKind(ts, kind) ==
  LET S == {t \in BagToSet(ts) : t.kind = kind}
  IN BagCardinality([t \in S |-> ts[t]])

\* C1: a Full Automation run started at index s over n prospects with clamped
\* cap maxSends never produces more than maxSends history records with status
\* sent, nor more than n - s, whatever the generate / send outcomes.
C1_SendCap ==
  \A t \in AutoRuns : t.recSent <= t.maxSends /\ t.recSent <= t.n - t.s

\* C1 witness: a run ended by its cap with prospects left in the list.
C1_CapReached ==
  /\ ev.type = "autoSend" /\ ev.run.pc = "end"
  /\ ev.run.recSent = ev.run.maxSends
  /\ ev.run.i < Len(prospects) - 1

C3_OneCycleStep == CycleStepsInFlight(tasks) <= 1

\* C4: Play Mode and Full Automation never run together, and no approval is
\* pending while Full Automation runs.
C4_MutualExclusion ==
  /\ ~(playRunning /\ autoRunning)
  /\ autoRunning => ~awaitingApproval

\* C5: a run on which stop was requested exits at its next checkpoint (the
\* loop condition evaluated after the delay) and starts no further iteration,
\* whatever the operator did after the stop.
C5_StopExitsAtCheckpoint ==
  (ev.type = "autoSleep" /\ ev.run.stopReq) => ev.run.pc = "end"

\* C6: if generation fails for the first prospect of a run, the run halts
\* with the generation-failure message, having made no send call and
\* appended no history record.
C6_FirstGenFailureHalts ==
  (ev.type = "autoGen" /\ ev.out = "fail" /\ ev.run.i = ev.run.s)
    => /\ ev.msg = "genfailed"
       /\ ev.run.kind = "auto" /\ ev.run.pc = "end"
       /\ ev.run \notin InFlight(tasks)
       /\ ev.run.sends = 0
       /\ ev.run.recSent = 0 /\ ev.run.recFailed = 0

\* C6 witness: generation failed for the first prospect of a run.
C6_FirstGenFailed ==
  /\ ev.type = "autoGen" /\ ev.out = "fail"
  /\ ev.run.kind = "auto" /\ ev.run.i = ev.run.s /\ ev.run.gens = 1

\* C7: when every generate and send of a run succeeds and the operator does
\* not intervene, the run started at s over n prospects with cap m ends
\* having sent exactly min(m, n - s) emails and appended as many records,
\* with the cursor on the last prospect sent, reporting "reached max sends"
\* when the m-th send was made and "reached end of list" otherwise.
C7_UnattendedRunCompletes ==
  (/\ ev.run.kind = "auto" /\ ev.run.pc = "end"
   /\ ev.out = "ok" /\ ~ev.run.attended)
    => LET k == Min(ev.run.maxSends, ev.run.n - ev.run.s)
       IN /\ ev.run.sentCount = k
          /\ ev.run.recSent = k
          /\ ev.run.recFailed = 0
          /\ activeIndex = ev.run.s + k - 1
          /\ ev.msg = IF ev.run.sentCount = ev.run.maxSends
                      THEN "maxsends" ELSE "endoflist"

\* C8: in Play Mode a send is issued through Approve + Send only while an
\* approval is pending, an approval becomes pending only by a generation of
\* Play Mode that succeeded, and an approve with no approval pending issues
\* no send.
C8_NoSendWithoutApproval ==
  [][/\ InFlightOfKind(tasks', "approve") > InFlightOfKind(tasks, "approve")
          => awaitingApproval /\ ev'.type = "approve"
     /\ (awaitingApproval' /\ ~awaitingApproval)
          => ev'.type = "playGen" /\ ev'.out \in {"ok", "incomplete"}
     /\ (ev'.type = "approve" /\ ~awaitingApproval)
          => InFlightOfKind(tasks', "approve") = InFlightOfKind(tasks, "approve")
    ]_vars

\* C8 witness: an approve issued its send, and the operator has since
\* approved again with nothing pending.
C8_ApprovedThenIgnored ==
  /\ ev.type = "approve" /\ ev.out = "ignored"
  /\ InFlightOfKind(tasks, "approve") = 1
  /\ toField # NoEmail /\ subjectField # EmptyText /\ bodyField # EmptyText

\* C9: in Play Mode the completion of an approved send that succeeded moves
\* the cursor forward by exactly one and starts the generation for that next
\* prospect; with the cursor on the last prospect it stops Play Mode instead,
\* leaving the cursor where it is, nothing pending and no generation started.
C9_AdvanceOncePerApproval ==
  [][(ev'.type = "approveSend" /\ ev'.out = "ok" /\ playRunning)
       => IF activeIndex >= Len(prospects) - 1
          THEN /\ ~playRunning' /\ ~awaitingApproval'
               /\ activeIndex' = activeIndex
               /\ InFlightOfKind(tasks', "play") = InFlightOfKind(tasks, "play")
          ELSE /\ playRunning' /\ ~awaitingApproval'
               /\ activeIndex' = activeIndex + 1
               /\ InFlightOfKind(tasks', "play") = InFlightOfKind(tasks, "play") + 1
               /\ BagIn(PlayTask(prospects[activeIndex + 2]), tasks')
    ]_vars

\* C9 witness: an approved send succeeded before the last prospect; Play Mode
\* is on the next prospect with its generation in flight.
C9_Advanced ==
  /\ ev.type = "approveSend" /\ ev.out = "ok"
  /\ playRunning /\ activeIndex = 1
  /\ BagIn(PlayTask(prospects[2]), tasks)

\* C10: when generation fails in Play Mode, the controller is back to Idle:
\* not running, no approval pending.
C10_GenFailureIdles ==
  (ev.type = "playGen" /\ ev.out = "fail")
    => ~playRunning /\ ~awaitingApproval

\* C11: when the send triggered by a Play Mode approve fails, the controller
\* goes to Idle (not running, no approval pending) and the cursor does not
\* advance.
C11_SendFailureIdles ==
  [][(ev'.type = "approveSend" /\ ev'.out = "fail")
       => /\ ~playRunning' /\ ~awaitingApproval'
          /\ activeIndex' = activeIndex
    ]_vars

\* C12: pause may come in any Play Mode state, also with a generate or send
\* call in flight; after it the controller is Idle with no approval pending,
\* and no approval becomes pending before Play Mode is started again: a
\* generation that was in flight at the pause, completing before the next
\* start, leaves nothing pending.
C12_PauseHolds ==
  /\ ev.type = "pause" => ~playRunning /\ ~awaitingApproval
  /\ (ev.type = "playGen" /\ ev.run.stopReq) => ~awaitingApproval

\* C13: in Full Automation, when a successful generation returns a draft with
\* an empty to, subject or body, the cycle reports failure (the run ends with
\* the missing-field message) and no send is attempted for that prospect.
C13_IncompleteDraftHalts ==
  (ev.type = "autoGen" /\ ev.out = "incomplete")
    => /\ ev.run.kind = "auto" /\ ev.run.pc = "end"
       /\ ev.msg = "missing"
       /\ ev.run \notin InFlight(tasks)
       /\ ev.run.sends = ev.run.gens - 1

\* A request to /send whose to, subject and body are all non-empty.
ValidSendCall ==
  /\ call.op = "send"
  /\ call.data.to \in {"x", " x "}
  /\ call.data.subject \in {"x", " x "}
  /\ call.data.body \in {"x", " x "}

\* The records the last request appended to the history store.
Appended == SubSeq(history, Len(call.before) + 1, Len(history))

\* C14 (amended): a send request with non-empty to, subject and body appends
\* at most one history record and never alters an older one; when the store
\* takes the first record the route writes, it appends exactly one: status
\* sent with an empty error when the mail transfer succeeded, status failed
\* with the failure description when it failed; and when the transfer failed
\* the caller receives the failure.
C14_OneRecordPerSend ==
  ValidSendCall =>
    /\ SubSeq(history, 1, Len(call.before)) = call.before
    /\ Len(Appended) <= 1
    /\ (call.faults.smtpOk /\ call.faults.appendOk)
         => /\ Len(Appended) = 1
            /\ Appended[1].status = "sent" /\ Appended[1].error = ""
            /\ call.ok
    /\ (~call.faults.smtpOk /\ call.faults.appendFailedOk)
         => /\ Len(Appended) = 1
            /\ Appended[1].status = "failed"
            /\ Appended[1].error = call.error /\ call.error # ""
    /\ ~call.faults.smtpOk => ~call.ok /\ call.error # ""
    /\ \A k \in 1..Len(Appended) :
         /\ Appended[k].to = strip(call.data.to)
         /\ Appended[k].subject = strip(call.data.subject)
         /\ Appended[k].body = strip(call.data.body)

\* C14 as stated: exactly one record, sent when the transfer succeeded and
\* failed when it failed, the failure reaching the caller.
C14_ExactlyOneRecord ==
  ValidSendCall =>
    /\ Len(Appended) = 1
    /\ call.faults.smtpOk
         => Appended[1].status = "sent" /\ Appended[1].error = ""
    /\ ~call.faults.smtpOk
         => /\ Appended[1].status = "failed" /\ Appended[1].error = call.error
            /\ ~call.ok

\* C14 witness: a failed transfer was logged after an earlier record.
C14_FailureLogged ==
  /\ ValidSendCall /\ ~call.faults.smtpOk
  /\ Len(call.before) = 1 /\ Len(history) = 2
  /\ history[2].status = "failed"

\* C15: a failure of the history append never changes the result of send:
\* when the mail transfer succeeded the caller gets success, and no record
\* with status failed is written for an email that was transferred.
C15_AppendFailureHidden ==
  (ValidSendCall /\ call.faults.smtpOk)
    => /\ call.ok
       /\ \A k \in 1..Len(Appended) : Appended[k].status # "failed"

\* C16: validation failures reach no remote collaborator and leave the
\* stores alone: generate with an empty or blank prompt and followup with an
\* empty to, previous subject or previous body make no generation call; send
\* with an empty to, subject or body makes no mail-transfer call and appends
\* no history record.
C16_ValidationBeforeRemote ==
  /\ (call.op = "generate" /\ call.data.prompt \in {"", " "})
       => ~call.ok /\ call.ai = 0 /\ call.smtp = 0 /\ history = call.before
  /\ (call.op = "followup"
        /\ (\/ call.data.to \in {"", " "}
            \/ call.data.previous_subject \in {"", " "}
            \/ call.data.previous_body \in {"", " "}))
       => ~call.ok /\ call.ai = 0 /\ call.smtp = 0 /\ history = call.before
  /\ (call.op = "send"
        /\ (\/ call.data.to \in {"", " "}
            \/ call.data.subject \in {"", " "}
            \/ call.data.body \in {"", " "}))
       => ~call.ok /\ call.ai = 0 /\ call.smtp = 0 /\ history = call.before

\* C16 witness: a send with a blank body was refused with the store in use.
C16_BlankRefused ==
  /\ call.op = "send" /\ call.data.to = "x" /\ call.data.subject = " x "
  /\ call.data.body = " "
  /\ ~call.ok /\ Len(history) = 1

\* C17: for every input to the Full Automation start -- any integer, blank,
\* or a text that is no number -- the effective maxSends lies in [1, 15] and
\* the effective delaySeconds in [2, 600]; a blank or non-numeric input yields
\* the defaults 15 and 12.
C17_ParametersClamped ==
  call.op = "parameters" =>
    /\ call.maxSends \in 1..15
    /\ call.delaySec \in 2..600
    /\ call.autoMax[1] \in {"blank", "text"} => call.maxSends = 15
    /\ call.autoDelay[1] \in {"blank", "text"} => call.delaySec = 12

\* C17 witness: both inputs above their limits were cut down to them.
C17_BothCapped ==
  /\ call.op = "parameters"
  /\ call.autoMax = <<"int", 17>> /\ call.maxSends = 15
  /\ call.autoDelay = <<"int", 601>> /\ call.delaySec = 600

\* The number of places of a text where the divider occurs.
Occurrences(full) ==
  Cardinality({i \in 1..(Len(full) - Len(DIVIDER) + 1) :
                 SubSeq(full, i, i + Len(DIVIDER) - 1) = DIVIDER})

\* C18: mergeRecipient (setRecipientLines) never alters the campaign body:
\* for a document that contains the divider, the campaign body extracted
\* after the call equals the one extracted before it, exactly.
C18_RecipientKeepsBody ==
  (call.op = "setRecipientLines" /\ includes(call.before, DIVIDER))
    => getCampaignPrompt(doc) = getCampaignPrompt(call.before)

\* C19: mergeCampaignBody (setCampaignPromptOnly) never alters the header:
\* for a document whose header lines hold (e, n), empty e or n included, the
\* header extracted after the call is (e, n).
C19_BodyKeepsHeader ==
  call.op = "setCampaignPromptOnly" =>
    \A e \in Plains, n \in Plains :
      (\E b \in CampaignTexts : call.before = promptText(e, n, trim(b)))
        => getRecipientFromPrompt(doc) = [email |-> e, name |-> n]

\* C20: after any setRecipientLines or setCampaignPromptOnly the prompt
\* document holds exactly one occurrence of the divider.
C20_OneDivider ==
  call.op \in {"setRecipientLines", "setCampaignPromptOnly"}
    => Occurrences(doc) = 1

\* C21: extractCampaignBody (getCampaignPrompt) returns the whole text after
\* the first occurrence of the divider, later occurrences of the divider and
\* the text after them included, and the empty text when the document holds
\* no divider.
C21_BodyIsRest ==
  getCampaignPrompt(doc) =
    IF includes(doc, DIVIDER)
    THEN SubSeq(doc, indexOf(doc, DIVIDER) + Len(DIVIDER), Len(doc))
    ELSE <<>>

\* A reply of /prospect_list that carries the parsed items.
Parsed == call.op \in {"set_prospect_list", "get_prospect_list"} /\ call.ok

\* Two texts are equal when the case of the letters is ignored.
SameIgnoringCase(u, v) ==
  /\ Len(u) = Len(v)
  /\ \A i \in 1..Len(u) : u[i] = v[i] \/ {u[i], v[i]} = {"a", "A"}

\* The candidates of the non-blank lines of a raw text whose email holds
\* both "@" and ".", in the order of the lines.
Holds(line) ==
  /\ stripLine(line) # <<>>
  /\ has("@", candidate(stripLine(line)).email)
  /\ has(".", candidate(stripLine(line)).email)

Kept(raw) ==
  LET ls == SelectSeq(splitlines(raw), Holds)
  IN [k \in 1..Len(ls) |-> candidate(stripLine(ls[k]))]

\* The place in a sequence of candidates where an email first appears,
\* ignoring case (0 when it never does).
FirstSeen(cands, email) ==
  LET at == {k \in 1..Len(cands) : SameIgnoringCase(cands[k].email, email)}
  IN IF at = {} THEN 0 ELSE CHOOSE k \in at : \A m \in at : k <= m

\* C22: parse_prospect_lines deduplicates on the lower-cased email: no two
\* entries have emails equal ignoring case, every kept email of the input is
\* represented, each entry is the candidate of the first line that produced
\* its email, and the entries are in first-seen order.
C22_DedupFirstWins ==
  Parsed =>
    LET items == call.items
        cands == Kept(call.raw)
    IN /\ \A i, j \in 1..Len(items) :
            i # j => ~SameIgnoringCase(items[i].email, items[j].email)
       /\ \A k \in 1..Len(cands) : FirstSeen(items, cands[k].email) # 0
       /\ \A i \in 1..Len(items) :
            /\ FirstSeen(cands, items[i].email) # 0
            /\ items[i] = cands[FirstSeen(cands, items[i].email)]
       /\ \A i, j \in 1..Len(items) :
            i < j => FirstSeen(cands, items[i].email)
                       < FirstSeen(cands, items[j].email)

\* C22 witness: a list naming the same email twice, in different case and
\* format, was parsed into one entry with the first line's name.
C22_DuplicateDropped ==
  /\ Parsed
  /\ call.raw = <<"a", ",", "s">> \o Mail \o <<"n">>
                  \o <<"A", "s", "<">> \o MAIL \o <<">">>
  /\ call.items = <<[name |-> <<"a">>, email |-> Mail]>>

\* The (name, email) the three ordered rules give for a stripped line: the
\* angle-bracket form; else the two trimmed sides of the first comma when
\* both are non-empty; else the whole line as email with an empty name.
ByRules(line) ==
  IF has("<", line) /\ has(">", line)
  THEN [name  |-> stripLine(split1(line, "<")[1]),
        email |-> stripLine(split1(split1(line, "<")[2], ">")[1])]
  ELSE IF /\ has(",", line)
          /\ stripLine(split1(line, ",")[1]) # <<>>
          /\ stripLine(split1(line, ",")[2]) # <<>>
  THEN [name  |-> stripLine(split1(line, ",")[1]),
        email |-> stripLine(split1(line, ",")[2])]
  ELSE [name |-> <<>>, email |-> line]

\* C23: for a raw text of one non-blank line, the parsed items are the
\* single candidate the three ordered rules give (a comma whose split leaves
\* a side empty falls through to the whole line as email) when its email
\* holds both "@" and ".", and nothing otherwise.
C23_ThreeRules ==
  (Parsed /\ ~has("n", call.raw) /\ stripLine(call.raw) # <<>>) =>
    LET c == ByRules(stripLine(call.raw))
    IN call.items = IF has("@", c.email) /\ has(".", c.email)
                    THEN <<c>> ELSE <<>>

\* The items written back as lines: `name, email`, or `email` alone when the
\* name is empty.
render(items) ==
  join([k \in 1..Len(items) |->
          IF items[k].name = <<>> THEN items[k].email
          ELSE items[k].name \o <<",", "s">> \o items[k].email])

\* C24: parsing is idempotent on its own output: the rendering of the parsed
\* items parses to the same items.
C24_ParseIdempotent ==
  Parsed => parse_prospect_lines(render(call.items)) = call.items

\* The places of a templates list whose name equals `name` ignoring case.
Named(items, name) ==
  {k \in 1..Len(items) : SameIgnoringCase(items[k].name, name)}

\* C25: in the templates store no two names are equal ignoring case; a save
\* with an empty (or blank) name or prompt fails and leaves the store as it
\* was; a successful save under an existing name replaces the prompt of that
\* template where it stands, every other template, the number and the order
\* unchanged; a successful save under a new name puts the template in front
\* of the others; a failed operation changes nothing.
C25_TemplatesKeyed ==
  LET now == files.templates
  IN /\ \A i, j \in 1..Len(now) :
          i # j => ~SameIgnoringCase(now[i].name, now[j].name)
     /\ (call.op \in {"save", "delete", "templates"} /\ ~call.ok)
          => now = call.before
     /\ call.op = "save" =>
          LET name == stripLine(call.name)
              text == stripLine(call.prompt)
              old == Named(call.before, name)
          IN /\ (name = <<>> \/ text = <<>>) => ~call.ok
             /\ (call.ok /\ old # {}) =>
                  /\ Len(now) = Len(call.before)
                  /\ \A k \in 1..Len(now) :
                       IF k \in old
                       THEN /\ now[k].prompt = text
                            /\ SameIgnoringCase(now[k].name, name)
                       ELSE now[k] = call.before[k]
             /\ (call.ok /\ old = {}) =>
                  now = <<[name |-> name, prompt |-> text]>> \o call.before

\* C25 witness: with two templates stored, a save under the name of the
\* second one in another case replaced its prompt where it stood.
C25_OverwrittenInPlace ==
  /\ call.op = "save" /\ call.ok
  /\ Len(call.before) = 2
  /\ call.before[2].name = <<"a">> /\ call.name = <<"A">>
  /\ call.before[2].prompt = <<"x">> /\ call.prompt = <<"y">>
  /\ files.templates = <<call.before[1], [name |-> <<"A">>, prompt |-> <<"y">>]>>

\* A step of manual navigation: a click on a prospect or Next Prospect.
Navigation ==
  NextProspect \/ \E idx \in 0..(Len(prospects) - 1) : ClickProspect(idx)

\* C26: manual navigation, in any controller state, changes only the cursor
\* and the recipient fields derived from it: no generate or send call joins
\* the calls in flight and the rest of the page stays as it was.
C26_NavigationOnlyMoves ==
  [][Navigation =>
       /\ BagCardinality(tasks') = BagCardinality(tasks)
       /\ UNCHANGED <<prospects, playRunning, awaitingApproval, autoRunning,
                      autoStopRequested, subjectField, bodyField>>]_vars

\* C27: within one Full Automation run the prospects are processed in
\* ascending, consecutive index order from the start index s: the k-th
\* generate call is made with the run at index s + k - 1 and for that
\* prospect, and the k-th send is addressed to the prospect of index
\* s + k - 1.
C27_ConsecutiveOrder ==
  \A t \in InFlight(tasks) :
    /\ (t.kind = "auto" /\ t.pc = "gen") =>
         /\ t.i = t.s + t.gens - 1
         /\ t.i < Len(prospects) => t.req = prospects[t.i + 1]
    /\ (t.kind = "auto" /\ t.pc = "send") =>
         /\ t.i = t.s + t.sends - 1
         /\ t.i < Len(prospects) => t.req = prospects[t.i + 1]

\* C28: between two consecutive sends of a Full Automation run the delay
\* wait completes: a run that goes on after a successful send is suspended
\* in its delay with no call issued for the next prospect, and every
\* generate call of a run after its first is issued by the step that ends
\* the delay wait of that run.
C28_DelayBetweenSends ==
  [][/\ (ev'.type = "autoSend" /\ ev'.out = "ok" /\ ev'.run.pc # "end") =>
          /\ ev'.run.pc = "sleep"
          /\ ev'.run \in InFlight(tasks')
          /\ ev'.run.gens = ev'.run.sentCount
          /\ ev'.run.sends = ev'.run.sentCount
     /\ (ev'.run.kind = "auto" /\ ev'.run.pc = "gen" /\ ev'.run.gens >= 2) =>
          /\ ev'.type = "autoSleep"
          /\ \E t \in InFlight(tasks) :
               /\ t.kind = "auto" /\ t.pc = "sleep"
               /\ ev'.run = [t EXCEPT !.pc = "gen", !.i = @ + 1, !.gens = @ + 1,
                                      !.req = ev'.run.req]]_vars

\* C28 witness: the delay after the first send ended and the run issued its
\* second generate call.
C28_SecondAfterDelay ==
  /\ ev.type = "autoSleep"
  /\ ev.run.kind = "auto" /\ ev.run.pc = "gen"
  /\ ev.run.gens = 2 /\ ev.run.sends = 1 /\ ev.run.sentCount = 1
  /\ ev.run \in InFlight(tasks)

\* C29: every Full Automation run eventually ends with the controller back
\* in Idle: whenever autoRunning holds, a state with autoRunning false (Start
\* enabled) follows, given that every call and delay completes, whatever its
\* outcome.
C29_RunReturnsIdle == autoRunning ~> ~autoRunning

\* C30: in Play Mode one pending draft leads to at most one send: an
\* Approve + Send clicked while the send of an earlier approval is still in
\* flight starts no other send, so at most one approval's send is in flight.
C30_OneSendPerDraft == InFlightOfKind(tasks, "approve") <= 1

\* C31: in Play Mode the email sent on approval is addressed to the prospect
\* for whom the pending draft was generated: the subject and body of every
\* approval send in flight are the draft written for its recipient.
C31_DraftGoesToItsProspect ==
  \A t \in InFlight(tasks) :
    (t.kind = "approve" /\ t.pc = "send") =>
      /\ t.subject = DraftFor(t.req)
      /\ t.body = DraftFor(t.req)

\* C32: every email sent by a Full Automation iteration for loop index i is
\* addressed to prospects[i].email: when the generate call of an iteration
\* returns, whatever the draft's `to` and whatever was selected meanwhile,
\* the send the iteration issues goes to the prospect of its index i.
C32_SendToLoopProspect ==
  [][\A t \in InFlight(tasks), o \in GenOutcomes :
       (AutoGenDone(t, o) /\ t.i < Len(prospects)) =>
         \A u \in InFlight(tasks') :
           (u.kind = "auto" /\ u.pc = "send" /\ u.i = t.i /\ u.sends = t.sends + 1)
             => u.req = prospects[t.i + 1]]_vars

\* C33: whenever the (rendered) prospect list is non-empty the cursor is a
\* valid index of it, across list loads that shrink or replace the list,
\* Next Prospect, Play Mode's advance and Full Automation iterations.
C33_CursorValid ==
  Len(prospects) > 0 => (activeIndex >= 0 /\ activeIndex < Len(prospects))

\* C33 witness: the list was replaced by a shorter one under a Full
\* Automation run working at index 1, and the cursor is back on index 0.
C33_ShrunkUnderRun ==
  /\ Len(prospects) = 1 /\ activeIndex = 0
  /\ \E t \in InFlight(tasks) : t.kind = "auto" /\ t.i = 1 /\ t.n = 2
====
